---- MODULE Spec2Model ----
(***************************************************************************)
(* The in-memory cache engine of the repository: the reference LRUCache    *)
(* (custom/LRUCache.java), the LFUCache (unnamed/part_006) and the         *)
(* LRUCache with remove of lld/Design_LRU_Cache.md.                        *)
(*                                                                         *)
(* A sentinel-bounded doubly linked list is written as the sequence of the *)
(* nodes met from head.next to tail.prev; an empty sequence is the list    *)
(* head <-> tail.  A HashMap is a function whose DOMAIN is its key set.    *)
(* A node of a class whose nodes are mutated in place (CacheNode, the      *)
(* document's Node) lives in the heap `nodes` and is referred to by the    *)
(* key it was constructed with (a node's key is never reassigned).         *)
(***************************************************************************)
EXTENDS Integers, Sequences, FiniteSets, TLC

\* ---------------------------------------------------------------- bounds
MaxKey == 3
MaxCap == 2
MaxFreq == 3

\* ------------------------------------------------------ program constants
\* `return null` of LRUCache.get: Java's null, written as a number
NULL == 0
\* `return -1` of LFUCache.get
MISS == -1

Keys == 1..MaxKey
\* Values are opaque to the caches: the two results a miss can give, each an
\* ordinary value for the class that does not use it as its miss result.
Values == {MISS, NULL}
Capacities == 0..MaxCap
Policies == {"LRU", "LFU", "DOC"}

\* HitCounter: the window of getHits, and the timestamps of the calls, which
\* lie at and just after the multiples of the window so that timestamps
\* exactly one window apart occur.
Window == 300
MaxEpoch == 2
MaxOffset == 1
MaxHits == 3
Times == {k * Window + d : k \in 0..MaxEpoch, d \in 0..MaxOffset}

\* The threads that call one ConcurrentLRUCache; thread t works on key t, so
\* that the keys of the threads are pairwise disjoint.
NumThreads == 2
Threads == 1..NumThreads
NoThread == 0
KeyOf(t) == t

VARIABLES
    policy,              \* which class was constructed
    capacity,            \* the constructor's argument
    cache,               \* LRUCache.cache : key -> NodeEntry
    list,                \* LRUCache: head.next .. tail.prev
    nodes,               \* heap of CacheNode / Node objects
    keyToNodeMap,        \* LFUCache.keyToNodeMap : key -> node
    frequencyToListMap,  \* LFUCache.frequencyToListMap : frequency -> list
    minFrequency,        \* LFUCache.minFrequency
    docCache,            \* document LRUCache.cache : key -> node
    dll,                 \* document LRUCache.dll
    lastOp,              \* the last call, its result and its exception
    touched,             \* history: the stored keys, oldest last touch first
    hist,                \* history: the calls so far while they follow a script
    threads,             \* ConcurrentLRUCache: where each calling thread is
    writeLock,           \* ConcurrentLRUCache.writeLock: the thread holding it
    written,             \* history: the value of each thread's last completed put
    since,               \* history: per stored key, the keys touched since its last touch
    q,                   \* HitCounter.q : the queued entries, first to last
    total,               \* HitCounter.total
    now,                 \* history: the timestamp of the last call
    log,                 \* history: the hits recorded at each timestamp
    lastHits             \* history: what the last call returned, if it was getHits

vars == <<policy, capacity, cache, list, nodes, keyToNodeMap,
          frequencyToListMap, minFrequency, docCache, dll, lastOp, touched, hist,
          threads, writeLock, written, since, q, total, now, log, lastHits>>

lruVars == <<cache, list>>
lfuVars == <<keyToNodeMap, frequencyToListMap, minFrequency>>
docVars == <<docCache, dll>>
concVars == <<threads, writeLock, written>>
hitVars == <<q, total, now, log, lastHits>>

\* ------------------------------------------------------------ java.util.Map
EmptyMap == [x \in {} |-> 0]
MapPut(m, k, v) == [x \in (DOMAIN m) \cup {k} |-> IF x = k THEN v ELSE m[x]]
MapRemove(m, k) == [x \in (DOMAIN m) \ {k} |-> m[x]]
containsKey(m, k) == k \in DOMAIN m
size(m) == Cardinality(DOMAIN m)

\* sequences
SeqRemove(s, x) == SelectSeq(s, LAMBDA y : y # x)
Elems(s) == {s[i] : i \in 1..Len(s)}

\* The heap after garbage collection: only the nodes still referred to.
Collect(h, refs) == [r \in (DOMAIN h) \cap refs |-> h[r]]

\* ================================================================ LRUCache
\* (custom/LRUCache.java)

NodeEntry(key, value) == [key |-> key, value |-> value]

\* addNode: link node right after head
addNode_AtTail(l, node) == l \o <<node>>
addNode(l, node) == <<node>> \o l

\* remove: unlink node
remove_Nothing(l, node) == l
remove(l, node) == SeqRemove(l, node)

\* tail.prev of a list that holds at least one node
tailPrev_HeadNext(l) == l[1]
tailPrev(l) == l[Len(l)]

\* if (cache.size() > capacity)
overCapacity_OffByOne(c, cap) == size(c) > cap + 1
overCapacity_AtCapacity(c, cap) == size(c) >= cap
overCapacity(c, cap) == size(c) > cap

\* put: the object after put(key, value); this = [cache, list]
LRUCache_put(this, cap, key, value) ==
    LET l0 == IF containsKey(this.cache, key)
              THEN remove(this.list, this.cache[key])
              ELSE this.list
        newNode == NodeEntry(key, value)
        c1 == MapPut(this.cache, key, newNode)
        l1 == addNode(l0, newNode)
    IN IF overCapacity(c1, cap)
       THEN LET nodeToDelete == tailPrev(l1)
            IN [cache |-> MapRemove(c1, nodeToDelete.key),
                list  |-> remove(l1, nodeToDelete)]
       ELSE [cache |-> c1, list |-> l1]

\* get: the object after get(key) and the value returned
LRUCache_get_DropsTail(this, key) ==
    IF ~containsKey(this.cache, key)
    THEN [this |-> this, ret |-> NULL]
    ELSE LET node == this.cache[key]
             l1 == addNode(remove(this.list, node), node)
             last == tailPrev(l1)
         IN IF last = node
            THEN [this |-> [cache |-> this.cache, list |-> l1],
                  ret |-> node.value]
            ELSE [this |-> [cache |-> MapRemove(this.cache, last.key),
                            list |-> remove(l1, last)],
                  ret |-> node.value]
LRUCache_get_NoTouch(this, key) ==
    IF ~containsKey(this.cache, key)
    THEN [this |-> this, ret |-> NULL]
    ELSE [this |-> this, ret |-> this.cache[key].value]
LRUCache_get(this, key) ==
    IF ~containsKey(this.cache, key)
    THEN [this |-> this, ret |-> NULL]
    ELSE LET node == this.cache[key]
         IN [this |-> [cache |-> this.cache,
                       list  |-> addNode(remove(this.list, node), node)],
             ret  |-> node.value]

\* ================================================================ LFUCache
\* (unnamed/part_006)  this = [nodes, keyToNodeMap, frequencyToListMap,
\*                             minFrequency, exc]

\* new CacheNode(key, value): a new node starts with frequency 1
CacheNode_FrequencyZero(key, value) ==
    [key |-> key, value |-> value, frequency |-> 0]
CacheNode(key, value) == [key |-> key, value |-> value, frequency |-> 1]

\* new DoublyLinkedList(): head <-> tail
DoublyLinkedList == << >>

\* the key of the dummy head and tail: new CacheNode(-1, -1)
DummyKey == -1

\* removeNode: prevNode.next = nextNode; nextNode.prev = prevNode.  The
\* node is unlinked from the list it is linked in, whichever it is.
removeNode(lists, node) == [f \in DOMAIN lists |-> SeqRemove(lists[f], node)]

\* addNodeToFrequencyList: link node right after the head of the list of
\* its frequency, creating the list when the map has none
addNodeToFrequencyList_AtTail(lists, h, node) ==
    LET freq == h[node].frequency
        l1 == IF ~containsKey(lists, freq)
              THEN MapPut(lists, freq, DoublyLinkedList)
              ELSE lists
    IN [l1 EXCEPT ![freq] = l1[freq] \o <<node>>]
addNodeToFrequencyList(lists, h, node) ==
    LET freq == h[node].frequency
        l1 == IF ~containsKey(lists, freq)
              THEN MapPut(lists, freq, DoublyLinkedList)
              ELSE lists
    IN [l1 EXCEPT ![freq] = <<node>> \o l1[freq]]

Raise(this, e) == [this EXCEPT !.exc = e]

\* updateFrequency
updateFrequency_KeepsMin(this, node) ==
    LET currentFreq == this.nodes[node].frequency
        l1 == removeNode(this.frequencyToListMap, node)
        h1 == [this.nodes EXCEPT ![node].frequency = @ + 1]
    IN IF ~containsKey(l1, currentFreq)
       THEN Raise([this EXCEPT !.nodes = h1, !.frequencyToListMap = l1],
                  "NullPointerException")
       ELSE LET emptied == l1[currentFreq] = << >>
                l2 == IF emptied THEN MapRemove(l1, currentFreq) ELSE l1
            IN [this EXCEPT !.nodes = h1,
                            !.frequencyToListMap = addNodeToFrequencyList(l2, h1, node)]
updateFrequency_AlwaysRaisesMin(this, node) ==
    LET currentFreq == this.nodes[node].frequency
        l1 == removeNode(this.frequencyToListMap, node)
        h1 == [this.nodes EXCEPT ![node].frequency = @ + 1]
    IN IF ~containsKey(l1, currentFreq)
       THEN Raise([this EXCEPT !.nodes = h1, !.frequencyToListMap = l1],
                  "NullPointerException")
       ELSE LET emptied == l1[currentFreq] = << >>
                l2 == IF emptied THEN MapRemove(l1, currentFreq) ELSE l1
                mf == IF emptied
                      THEN this.minFrequency + 1
                      ELSE this.minFrequency
            IN [this EXCEPT !.nodes = h1,
                            !.frequencyToListMap = addNodeToFrequencyList(l2, h1, node),
                            !.minFrequency = mf]
updateFrequency_KeepsEmptyList(this, node) ==
    LET currentFreq == this.nodes[node].frequency
        l1 == removeNode(this.frequencyToListMap, node)
        h1 == [this.nodes EXCEPT ![node].frequency = @ + 1]
    IN IF ~containsKey(l1, currentFreq)
       THEN Raise([this EXCEPT !.nodes = h1, !.frequencyToListMap = l1],
                  "NullPointerException")
       ELSE LET emptied == l1[currentFreq] = << >>
                mf == IF emptied /\ this.minFrequency = currentFreq
                      THEN this.minFrequency + 1
                      ELSE this.minFrequency
            IN [this EXCEPT !.nodes = h1,
                            !.frequencyToListMap = addNodeToFrequencyList(l1, h1, node),
                            !.minFrequency = mf]
updateFrequency(this, node) ==
    LET currentFreq == this.nodes[node].frequency
        l1 == removeNode(this.frequencyToListMap, node)
        h1 == [this.nodes EXCEPT ![node].frequency = @ + 1]
    IN IF ~containsKey(l1, currentFreq)
       THEN \* frequencyToListMap.get(currentFreq) is null
            Raise([this EXCEPT !.nodes = h1, !.frequencyToListMap = l1],
                  "NullPointerException")
       ELSE LET emptied == l1[currentFreq] = << >>
                l2 == IF emptied THEN MapRemove(l1, currentFreq) ELSE l1
                mf == IF emptied /\ this.minFrequency = currentFreq
                      THEN this.minFrequency + 1
                      ELSE this.minFrequency
            IN [this EXCEPT !.nodes = h1,
                            !.frequencyToListMap = addNodeToFrequencyList(l2, h1, node),
                            !.minFrequency = mf]

\* get
LFUCache_get_ZeroOnMiss(this, key) ==
    IF ~containsKey(this.keyToNodeMap, key)
    THEN [this |-> this, ret |-> 0]
    ELSE LET node == this.keyToNodeMap[key]
             t1 == updateFrequency(this, node)
         IN [this |-> t1, ret |-> t1.nodes[node].value]
LFUCache_get(this, key) ==
    IF ~containsKey(this.keyToNodeMap, key)
    THEN [this |-> this, ret |-> MISS]
    ELSE LET node == this.keyToNodeMap[key]
             t1 == updateFrequency(this, node)
         IN [this |-> t1, ret |-> t1.nodes[node].value]

\* frequencyToListMap.get(minFrequency), the list put evicts from
evictionList_MostFrequent(this) ==
    LET fs == DOMAIN this.frequencyToListMap
    IN this.frequencyToListMap[CHOOSE f \in fs : \A g \in fs : g <= f]
evictionList(this) == this.frequencyToListMap[this.minFrequency]

\* the eviction of put: if (keyToNodeMap.size() == capacity) { ... }
LFUCache_evict(this) ==
    IF ~containsKey(this.frequencyToListMap, this.minFrequency)
    THEN \* frequencyToListMap.get(minFrequency) is null
         Raise(this, "NullPointerException")
    ELSE IF evictionList(this) = << >>
    THEN \* tail.prev is the dummy head: keyToNodeMap.remove(-1), then
         \* removeNode(head) dereferences head.prev, which is null
         Raise([this EXCEPT !.keyToNodeMap = MapRemove(@, DummyKey)],
               "NullPointerException")
    ELSE LET nodeToRemove == tailPrev(evictionList(this))
             m1 == MapRemove(this.keyToNodeMap, this.nodes[nodeToRemove].key)
             l1 == removeNode(this.frequencyToListMap, nodeToRemove)
             l2 == IF l1[this.minFrequency] = << >>
                   THEN MapRemove(l1, this.minFrequency)
                   ELSE l1
         IN [this EXCEPT !.keyToNodeMap = m1, !.frequencyToListMap = l2]

\* the insertion of put: new node with frequency 1
LFUCache_insert_KeepsMin(this, key, value) ==
    LET newNode == key
        h1 == MapPut(this.nodes, newNode, CacheNode(key, value))
    IN [this EXCEPT !.nodes = h1,
                    !.keyToNodeMap = MapPut(@, key, newNode),
                    !.frequencyToListMap = addNodeToFrequencyList(@, h1, newNode)]
LFUCache_insert(this, key, value) ==
    LET newNode == key
        h1 == MapPut(this.nodes, newNode, CacheNode(key, value))
    IN [this EXCEPT !.nodes = h1,
                    !.minFrequency = 1,
                    !.keyToNodeMap = MapPut(@, key, newNode),
                    !.frequencyToListMap = addNodeToFrequencyList(@, h1, newNode)]

\* put
LFUCache_put_UpdateInPlace(this, cap, key, value) ==
    IF cap = 0 THEN this
    ELSE IF containsKey(this.keyToNodeMap, key)
    THEN LET node == this.keyToNodeMap[key]
         IN [this EXCEPT !.nodes[node].value = value]
    ELSE LET t1 == IF size(this.keyToNodeMap) = cap
                   THEN LFUCache_evict(this)
                   ELSE this
         IN IF t1.exc # "none" THEN t1 ELSE LFUCache_insert(t1, key, value)
LFUCache_put(this, cap, key, value) ==
    IF cap = 0 THEN this
    ELSE IF containsKey(this.keyToNodeMap, key)
    THEN LET node == this.keyToNodeMap[key]
         IN updateFrequency([this EXCEPT !.nodes[node].value = value], node)
    ELSE LET t1 == IF size(this.keyToNodeMap) = cap
                   THEN LFUCache_evict(this)
                   ELSE this
         IN IF t1.exc # "none" THEN t1 ELSE LFUCache_insert(t1, key, value)

\* ======================================================= document LRUCache
\* (lld/Design_LRU_Cache.md)  this = [nodes, cache, dll, exc]

\* new Node<>(key, value)
Node(key, value) == [key |-> key, value |-> value]

\* the reference that is no node
NoNode == 0

\* DoublyLinkedList.addFirst
addFirst(l, node) == <<node>> \o l

\* DoublyLinkedList.remove
dllRemove(l, node) == SeqRemove(l, node)

\* DoublyLinkedList.moveToFront
moveToFront_Stays(l, node) == l
moveToFront(l, node) == addFirst(dllRemove(l, node), node)

\* DoublyLinkedList.removeLast: the list afterwards and the node returned
removeLast(l) ==
    IF l = << >>
    THEN [dll |-> l, last |-> NoNode]
    ELSE [dll |-> dllRemove(l, tailPrev(l)), last |-> tailPrev(l)]

\* get
DocCache_get(this, key) ==
    IF ~containsKey(this.cache, key)
    THEN [this |-> this, ret |-> NULL]
    ELSE LET node == this.cache[key]
         IN [this |-> [this EXCEPT !.dll = moveToFront(@, node)],
             ret  |-> this.nodes[node].value]

\* put
DocCache_put_KeepsOldValue(this, cap, key, value) ==
    IF containsKey(this.cache, key)
    THEN LET existing == this.cache[key]
         IN [this EXCEPT !.dll = moveToFront(@, existing)]
    ELSE LET full == size(this.cache) >= cap
             r == removeLast(this.dll)
         IN IF full /\ r.last = NoNode
            THEN Raise([this EXCEPT !.dll = r.dll], "NullPointerException")
            ELSE LET c1 == IF full
                           THEN MapRemove(this.cache, this.nodes[r.last].key)
                           ELSE this.cache
                     d1 == IF full THEN r.dll ELSE this.dll
                     newNode == key
                 IN [this EXCEPT !.nodes = MapPut(@, newNode, Node(key, value)),
                                 !.dll = addFirst(d1, newNode),
                                 !.cache = MapPut(c1, key, newNode)]
DocCache_put_EvictsEarly(this, cap, key, value) ==
    IF containsKey(this.cache, key)
    THEN LET existing == this.cache[key]
         IN [this EXCEPT !.nodes[existing].value = value,
                         !.dll = moveToFront(@, existing)]
    ELSE LET full == size(this.cache) + 1 >= cap
             r == removeLast(this.dll)
         IN IF full /\ r.last = NoNode
            THEN Raise([this EXCEPT !.dll = r.dll], "NullPointerException")
            ELSE LET c1 == IF full
                           THEN MapRemove(this.cache, this.nodes[r.last].key)
                           ELSE this.cache
                     d1 == IF full THEN r.dll ELSE this.dll
                     newNode == key
                 IN [this EXCEPT !.nodes = MapPut(@, newNode, Node(key, value)),
                                 !.dll = addFirst(d1, newNode),
                                 !.cache = MapPut(c1, key, newNode)]
DocCache_put(this, cap, key, value) ==
    IF containsKey(this.cache, key)
    THEN LET existing == this.cache[key]
         IN [this EXCEPT !.nodes[existing].value = value,
                         !.dll = moveToFront(@, existing)]
    ELSE LET full == size(this.cache) >= cap
             r == removeLast(this.dll)
         IN IF full /\ r.last = NoNode
            THEN \* lru.key on a null lru
                 Raise([this EXCEPT !.dll = r.dll], "NullPointerException")
            ELSE LET c1 == IF full
                           THEN MapRemove(this.cache, this.nodes[r.last].key)
                           ELSE this.cache
                     d1 == IF full THEN r.dll ELSE this.dll
                     newNode == key
                 IN [this EXCEPT !.nodes = MapPut(@, newNode, Node(key, value)),
                                 !.dll = addFirst(d1, newNode),
                                 !.cache = MapPut(c1, key, newNode)]

\* remove
DocCache_remove_NoNullCheck(this, key) ==
    IF ~containsKey(this.cache, key)
    THEN Raise(this, "NullPointerException")
    ELSE LET node == this.cache[key]
         IN [this EXCEPT !.cache = MapRemove(@, key),
                         !.dll = dllRemove(@, node)]
DocCache_remove_MapOnly(this, key) ==
    IF ~containsKey(this.cache, key)
    THEN this
    ELSE [this EXCEPT !.cache = MapRemove(@, key)]
DocCache_remove(this, key) ==
    IF ~containsKey(this.cache, key)
    THEN this
    ELSE LET node == this.cache[key]
         IN [this EXCEPT !.cache = MapRemove(@, key),
                         !.dll = dllRemove(@, node)]

\* ================================================================ history
\* A call, as the history records it.
Call(op, key, value) == [op |-> op, key |-> key, value |-> value]

\* The scripts of calls on a fresh cache that the properties name; a script
\* is a sequence of <<operation, key slot>>, distinct slots standing for
\* distinct keys.
Scripts ==
    { << <<"put", 1>>, <<"put", 2>>, <<"get", 1>>, <<"put", 3>> >>,
      << <<"put", 1>>, <<"put", 2>>, <<"put", 3>> >>,
      << <<"put", 1>>, <<"put", 1>>, <<"get", 1>> >>,
      << <<"put", 1>>, <<"put", 2>>, <<"remove", 1>> >>,
      << <<"put", 1>>, <<"get", 1>>, <<"put", 2>>, <<"put", 1>> >> }

Follows(h, script) ==
    /\ Len(h) <= Len(script)
    /\ \A i \in 1..Len(h) : h[i].op = script[i][1]
    /\ \A i, j \in 1..Len(h) :
          (h[i].key = h[j].key) <=> (script[i][2] = script[j][2])

OffScript == << Call("off", 0, 0) >>

Record(h, c) ==
    IF h # OffScript /\ \E s \in Scripts : Follows(Append(h, c), s)
    THEN Append(h, c)
    ELSE OffScript

\* The stored keys in the order of their last touch, oldest first, after a
\* call on key k that touched it or not.
Touch(t, k, touch, keysAfter) ==
    LET t1 == IF touch THEN Append(SeqRemove(t, k), k) ELSE t
    IN SelectSeq(t1, LAMBDA x : x \in keysAfter)

\* The call just made: its arguments, the value returned (<< >> when the
\* method is void or threw), the exception thrown and the keys it evicted.
Result(op, key, value, ret, exc, evicted) ==
    [op |-> op, key |-> key, value |-> value,
     ret |-> IF exc = "none" THEN ret ELSE << >>, exc |-> exc,
     evicted |-> evicted]

\* A thread that is in no call; exc is how its last call ended.
Idle == [pc |-> "idle", op |-> "none", value |-> NULL, lru |-> NoNode,
         exc |-> "none"]

\* For each stored key of an LRU cache, the other keys touched since its
\* last touch (tch) and those of them that were inserted, being absent
\* (ins), after a call on key k.
Since(s, k, touch, insert, keysAfter) ==
    LET s1 == IF touch
              THEN [j \in (DOMAIN s) \cup {k} |->
                      IF j = k
                      THEN [ins |-> {}, tch |-> {}]
                      ELSE [ins |-> IF insert THEN s[j].ins \cup {k}
                                    ELSE s[j].ins,
                            tch |-> s[j].tch \cup {k}]]
              ELSE s
    IN [j \in (DOMAIN s1) \cap keysAfter |-> s1[j]]

\* ================================================================ the state
Init ==
    /\ policy \in Policies
    /\ capacity \in Capacities
    /\ cache = EmptyMap
    /\ list = << >>
    /\ nodes = EmptyMap
    /\ keyToNodeMap = EmptyMap
    /\ frequencyToListMap = EmptyMap
    /\ minFrequency = 0
    /\ docCache = EmptyMap
    /\ dll = << >>
    /\ lastOp = Result("new", 0, 0, << >>, "none", {})
    /\ touched = << >>
    /\ hist = << >>
    /\ threads = [t \in Threads |-> Idle]
    /\ writeLock = NoThread
    /\ written = [t \in Threads |-> << >>]
    /\ since = EmptyMap
    /\ q = << >>
    /\ total = 0
    /\ now = 0
    /\ log = [t \in Times |-> 0]
    /\ lastHits = << >>

\* ---------------------------------------------------------------- LRUCache
LRUThis == [cache |-> cache, list |-> list]

LRUPut(key, value) ==
    /\ policy = "LRU"
    /\ LET t == LRUCache_put(LRUThis, capacity, key, value)
       IN /\ cache' = t.cache
          /\ list' = t.list
          /\ lastOp' = Result("put", key, value, << >>, "none",
                              (DOMAIN cache) \ (DOMAIN t.cache))
          /\ touched' = Touch(touched, key, key \in DOMAIN t.cache, DOMAIN t.cache)
          /\ since' = Since(since, key, key \in DOMAIN t.cache,
                            ~containsKey(cache, key), DOMAIN t.cache)
    /\ hist' = Record(hist, Call("put", key, value))
    /\ UNCHANGED <<policy, capacity, nodes, lfuVars, docVars, concVars, hitVars>>

LRUGet(key) ==
    /\ policy = "LRU"
    /\ LET r == LRUCache_get(LRUThis, key)
       IN /\ cache' = r.this.cache
          /\ list' = r.this.list
          /\ lastOp' = Result("get", key, NULL, <<r.ret>>, "none",
                              (DOMAIN cache) \ (DOMAIN r.this.cache))
          /\ touched' = Touch(touched, key, containsKey(cache, key), DOMAIN r.this.cache)
          /\ since' = Since(since, key, containsKey(cache, key), FALSE,
                            DOMAIN r.this.cache)
    /\ hist' = Record(hist, Call("get", key, NULL))
    /\ UNCHANGED <<policy, capacity, nodes, lfuVars, docVars, concVars, hitVars>>

\* ---------------------------------------------------------------- LFUCache
LFUThis == [nodes |-> nodes, keyToNodeMap |-> keyToNodeMap,
            frequencyToListMap |-> frequencyToListMap,
            minFrequency |-> minFrequency, exc |-> "none"]

\* the nodes an LFUCache still refers to
LFURefs(t) ==
    {t.keyToNodeMap[k] : k \in DOMAIN t.keyToNodeMap}
    \cup UNION {Elems(t.frequencyToListMap[f]) : f \in DOMAIN t.frequencyToListMap}

\* the counter of a stored key stays within the model's bound
BelowMaxFreq(key) ==
    containsKey(keyToNodeMap, key) => nodes[keyToNodeMap[key]].frequency < MaxFreq

LFUAssign(t) ==
    /\ nodes' = Collect(t.nodes, LFURefs(t))
    /\ keyToNodeMap' = t.keyToNodeMap
    /\ frequencyToListMap' = t.frequencyToListMap
    /\ minFrequency' = t.minFrequency

LFUPut(key, value) ==
    /\ policy = "LFU"
    /\ BelowMaxFreq(key)
    /\ LET t == LFUCache_put(LFUThis, capacity, key, value)
       IN /\ LFUAssign(t)
          /\ lastOp' = Result("put", key, value, << >>, t.exc,
                              (DOMAIN keyToNodeMap) \ (DOMAIN t.keyToNodeMap))
          /\ touched' = Touch(touched, key, key \in DOMAIN t.keyToNodeMap,
                              DOMAIN t.keyToNodeMap)
    /\ hist' = Record(hist, Call("put", key, value))
    /\ UNCHANGED <<policy, capacity, lruVars, docVars, concVars, since, hitVars>>

LFUGet(key) ==
    /\ policy = "LFU"
    /\ BelowMaxFreq(key)
    /\ LET r == LFUCache_get(LFUThis, key)
       IN /\ LFUAssign(r.this)
          /\ lastOp' = Result("get", key, NULL, <<r.ret>>, r.this.exc,
                              (DOMAIN keyToNodeMap) \ (DOMAIN r.this.keyToNodeMap))
          /\ touched' = Touch(touched, key, containsKey(keyToNodeMap, key),
                              DOMAIN r.this.keyToNodeMap)
    /\ hist' = Record(hist, Call("get", key, NULL))
    /\ UNCHANGED <<policy, capacity, lruVars, docVars, concVars, since, hitVars>>

\* ------------------------------------------------------- document LRUCache
DocThis == [nodes |-> nodes, cache |-> docCache, dll |-> dll, exc |-> "none"]

DocRefs(t) == {t.cache[k] : k \in DOMAIN t.cache} \cup Elems(t.dll)

DocAssign(t) ==
    /\ nodes' = Collect(t.nodes, DocRefs(t))
    /\ docCache' = t.cache
    /\ dll' = t.dll

DocPut(key, value) ==
    /\ policy = "DOC"
    /\ LET t == DocCache_put(DocThis, capacity, key, value)
       IN /\ DocAssign(t)
          /\ lastOp' = Result("put", key, value, << >>, t.exc,
                              (DOMAIN docCache) \ (DOMAIN t.cache))
          /\ touched' = Touch(touched, key, key \in DOMAIN t.cache, DOMAIN t.cache)
          /\ since' = Since(since, key, key \in DOMAIN t.cache,
                            ~containsKey(docCache, key), DOMAIN t.cache)
    /\ hist' = Record(hist, Call("put", key, value))
    /\ UNCHANGED <<policy, capacity, lruVars, lfuVars, concVars, hitVars>>

DocGet(key) ==
    /\ policy = "DOC"
    /\ LET r == DocCache_get(DocThis, key)
       IN /\ DocAssign(r.this)
          /\ lastOp' = Result("get", key, NULL, <<r.ret>>, r.this.exc,
                              (DOMAIN docCache) \ (DOMAIN r.this.cache))
          /\ touched' = Touch(touched, key, containsKey(docCache, key),
                              DOMAIN r.this.cache)
          /\ since' = Since(since, key, containsKey(docCache, key), FALSE,
                            DOMAIN r.this.cache)
    /\ hist' = Record(hist, Call("get", key, NULL))
    /\ UNCHANGED <<policy, capacity, lruVars, lfuVars, concVars, hitVars>>

DocRemove(key) ==
    /\ policy = "DOC"
    /\ LET t == DocCache_remove(DocThis, key)
       IN /\ DocAssign(t)
          /\ lastOp' = Result("remove", key, NULL, << >>, t.exc, {})
          /\ touched' = Touch(touched, key, FALSE, DOMAIN t.cache)
          /\ since' = Since(since, key, FALSE, FALSE, DOMAIN t.cache)
    /\ hist' = Record(hist, Call("remove", key, NULL))
    /\ UNCHANGED <<policy, capacity, lruVars, lfuVars, concVars, hitVars>>

Next ==
    \/ \E key \in Keys, value \in Values : LRUPut(key, value)
    \/ \E key \in Keys : LRUGet(key)
    \/ \E key \in Keys, value \in Values : LFUPut(key, value)
    \/ \E key \in Keys : LFUGet(key)
    \/ \E key \in Keys, value \in Values : DocPut(key, value)
    \/ \E key \in Keys : DocGet(key)
    \/ \E key \in Keys : DocRemove(key)

Spec == Init /\ [][Next]_vars

\* The constructors store whatever capacity they are given: the same calls
\* on a cache constructed with a capacity that may be negative.
AnyCapacities == (0 - 1)..MaxCap

InitAnyCapacity ==
    /\ policy \in Policies
    /\ capacity \in AnyCapacities
    /\ cache = EmptyMap
    /\ list = << >>
    /\ nodes = EmptyMap
    /\ keyToNodeMap = EmptyMap
    /\ frequencyToListMap = EmptyMap
    /\ minFrequency = 0
    /\ docCache = EmptyMap
    /\ dll = << >>
    /\ lastOp = Result("new", 0, 0, << >>, "none", {})
    /\ touched = << >>
    /\ hist = << >>
    /\ threads = [t \in Threads |-> Idle]
    /\ writeLock = NoThread
    /\ written = [t \in Threads |-> << >>]
    /\ since = EmptyMap
    /\ q = << >>
    /\ total = 0
    /\ now = 0
    /\ log = [t \in Times |-> 0]
    /\ lastHits = << >>

SpecAnyCapacity == InitAnyCapacity /\ [][Next]_vars

\* ====================================================== ConcurrentLRUCache
\* (lld/Design_LRU_Cache.md)  The fields are those of the document's
\* LRUCache; a call is a sequence of steps of the calling thread:
\*   lock -> get | put -> ... -> unlock -> idle
\* and the steps between lock and unlock are the statements of the try
\* block, one call on the map or on the list each.
seqVars == <<policy, capacity, lruVars, lfuVars, lastOp, touched, hist, since,
            hitVars>>

InitConcurrent ==
    /\ policy = "DOC"
    /\ capacity \in Capacities
    /\ cache = EmptyMap
    /\ list = << >>
    /\ nodes = EmptyMap
    /\ keyToNodeMap = EmptyMap
    /\ frequencyToListMap = EmptyMap
    /\ minFrequency = 0
    /\ docCache = EmptyMap
    /\ dll = << >>
    /\ lastOp = Result("new", 0, 0, << >>, "none", {})
    /\ touched = << >>
    /\ hist = << >>
    /\ threads = [t \in Threads |-> Idle]
    /\ writeLock = NoThread
    /\ written = [t \in Threads |-> << >>]
    /\ since = EmptyMap
    /\ q = << >>
    /\ total = 0
    /\ now = 0
    /\ log = [t \in Times |-> 0]
    /\ lastHits = << >>

\* where a thread continues when a statement of the try block throws: the
\* finally block
AfterThrow_Return == "idle"
AfterThrow == "unlock"

\* a thread calls get(key) or put(key, value)
ThreadCall(t, op, value) ==
    /\ threads[t].pc = "idle"
    /\ threads' = [threads EXCEPT ![t] = [pc |-> "lock", op |-> op,
                                          value |-> value, lru |-> NoNode,
                                          exc |-> "none"]]
    /\ UNCHANGED <<nodes, docVars, writeLock, written, seqVars>>

\* writeLock.lock()
Lock_NoExclusion(t) ==
    /\ threads[t].pc = "lock"
    /\ writeLock' = t
    /\ threads' = [threads EXCEPT ![t].pc = threads[t].op]
    /\ UNCHANGED <<nodes, docVars, written, seqVars>>
Lock(t) ==
    /\ threads[t].pc = "lock"
    /\ writeLock = NoThread
    /\ writeLock' = t
    /\ threads' = [threads EXCEPT ![t].pc = threads[t].op]
    /\ UNCHANGED <<nodes, docVars, written, seqVars>>

\* get: node = cache.get(key); if (node == null) return null;
GetLookup(t) ==
    /\ threads[t].pc = "get"
    /\ threads' = [threads EXCEPT ![t].pc =
                      IF containsKey(docCache, KeyOf(t))
                      THEN "unlink" ELSE "unlock"]
    /\ UNCHANGED <<nodes, docVars, writeLock, written, seqVars>>

\* put: existing = cache.get(key); if (existing != null) existing.value =
\* value; else if (cache.size() >= capacity)
PutLookup_KeepsOldValue(t) ==
    /\ threads[t].pc = "put"
    /\ threads' = [threads EXCEPT ![t].pc =
                      IF containsKey(docCache, KeyOf(t)) THEN "unlink"
                      ELSE IF size(docCache) >= capacity THEN "removeLast"
                      ELSE "addFirst"]
    /\ UNCHANGED <<nodes, docVars, writeLock, written, seqVars>>
PutLookup(t) ==
    /\ threads[t].pc = "put"
    /\ IF containsKey(docCache, KeyOf(t))
       THEN /\ nodes' = [nodes EXCEPT ![docCache[KeyOf(t)]].value =
                                          threads[t].value]
            /\ threads' = [threads EXCEPT ![t].pc = "unlink"]
       ELSE /\ nodes' = nodes
            /\ threads' = [threads EXCEPT ![t].pc =
                              IF size(docCache) >= capacity
                              THEN "removeLast" ELSE "addFirst"]
    /\ UNCHANGED <<docVars, writeLock, written, seqVars>>

\* dll.moveToFront(node): remove(node)
Unlink(t) ==
    /\ threads[t].pc = "unlink"
    /\ dll' = dllRemove(dll, docCache[KeyOf(t)])
    /\ threads' = [threads EXCEPT ![t].pc = "front"]
    /\ UNCHANGED <<nodes, docCache, writeLock, written, seqVars>>

\* dll.moveToFront(node): addFirst(node); return
Front(t) ==
    /\ threads[t].pc = "front"
    /\ dll' = addFirst(dll, docCache[KeyOf(t)])
    /\ threads' = [threads EXCEPT ![t].pc = "unlock"]
    /\ UNCHANGED <<nodes, docCache, writeLock, written, seqVars>>

\* lru = dll.removeLast()
RemoveLast(t) ==
    /\ threads[t].pc = "removeLast"
    /\ LET r == removeLast(dll)
       IN /\ dll' = r.dll
          /\ threads' = [threads EXCEPT ![t].pc = "cacheRemove",
                                        ![t].lru = r.last]
    /\ UNCHANGED <<nodes, docCache, writeLock, written, seqVars>>

\* cache.remove(lru.key)
CacheRemove(t) ==
    /\ threads[t].pc = "cacheRemove"
    /\ IF threads[t].lru = NoNode
       THEN /\ threads' = [threads EXCEPT ![t].pc = AfterThrow,
                                          ![t].exc = "NullPointerException"]
            /\ UNCHANGED <<nodes, docCache>>
       ELSE LET c1 == MapRemove(docCache, nodes[threads[t].lru].key)
            IN /\ docCache' = c1
               /\ nodes' = Collect(nodes, {c1[k] : k \in DOMAIN c1}
                                              \cup Elems(dll))
               /\ threads' = [threads EXCEPT ![t].pc = "addFirst",
                                             ![t].lru = NoNode]
    /\ UNCHANGED <<dll, writeLock, written, seqVars>>

\* newNode = new Node<>(key, value); dll.addFirst(newNode)
AddFirst(t) ==
    /\ threads[t].pc = "addFirst"
    /\ nodes' = MapPut(nodes, KeyOf(t), Node(KeyOf(t), threads[t].value))
    /\ dll' = addFirst(dll, KeyOf(t))
    /\ threads' = [threads EXCEPT ![t].pc = "cachePut"]
    /\ UNCHANGED <<docCache, writeLock, written, seqVars>>

\* cache.put(key, newNode)
CachePut_Forgets(t) ==
    /\ threads[t].pc = "cachePut"
    /\ threads' = [threads EXCEPT ![t].pc = "unlock"]
    /\ UNCHANGED <<nodes, docVars, writeLock, written, seqVars>>
CachePut(t) ==
    /\ threads[t].pc = "cachePut"
    /\ docCache' = MapPut(docCache, KeyOf(t), KeyOf(t))
    /\ threads' = [threads EXCEPT ![t].pc = "unlock"]
    /\ UNCHANGED <<nodes, dll, writeLock, written, seqVars>>

\* finally { writeLock.unlock(); } and the call returns or throws
Unlock(t) ==
    /\ threads[t].pc = "unlock"
    /\ writeLock' = NoThread
    /\ threads' = [threads EXCEPT ![t] = [Idle EXCEPT !.exc = threads[t].exc]]
    /\ written' = IF threads[t].op = "put" /\ threads[t].exc = "none"
                  THEN [written EXCEPT ![t] = << threads[t].value >>]
                  ELSE written
    /\ UNCHANGED <<nodes, docVars, seqVars>>

\* a step of thread t inside a call it has the lock for
Body(t) ==
    \/ GetLookup(t)
    \/ PutLookup(t)
    \/ Unlink(t)
    \/ Front(t)
    \/ RemoveLast(t)
    \/ CacheRemove(t)
    \/ AddFirst(t)
    \/ CachePut(t)
    \/ Unlock(t)

NextConcurrent ==
    \/ \E t \in Threads, value \in Values : ThreadCall(t, "put", value)
    \/ \E t \in Threads : ThreadCall(t, "get", NULL)
    \/ \E t \in Threads : Lock(t)
    \/ \E t \in Threads : GetLookup(t)
    \/ \E t \in Threads : PutLookup(t)
    \/ \E t \in Threads : Unlink(t)
    \/ \E t \in Threads : Front(t)
    \/ \E t \in Threads : RemoveLast(t)
    \/ \E t \in Threads : CacheRemove(t)
    \/ \E t \in Threads : AddFirst(t)
    \/ \E t \in Threads : CachePut(t)
    \/ \E t \in Threads : Unlock(t)

SpecConcurrent == InitConcurrent /\ [][NextConcurrent]_vars

\* Fair scheduling: a thread that can take a step of its call does take it,
\* and a thread that waits for a lock that is free again and again gets it.
FairScheduling ==
    \A t \in Threads : WF_vars(Body(t)) /\ SF_vars(Lock(t))

SpecConcurrentFair == SpecConcurrent /\ FairScheduling

\* ================================================= the two LRU classes
\* LRUCache of custom/LRUCache.java and LRUCache of the document, constructed
\* with the same capacity and given the same calls; ret holds the result of
\* the first and of the second.
InitPair ==
    /\ policy = "BOTH"
    /\ capacity \in Capacities
    /\ cache = EmptyMap
    /\ list = << >>
    /\ nodes = EmptyMap
    /\ keyToNodeMap = EmptyMap
    /\ frequencyToListMap = EmptyMap
    /\ minFrequency = 0
    /\ docCache = EmptyMap
    /\ dll = << >>
    /\ lastOp = Result("new", 0, 0, << >>, "none", {})
    /\ touched = << >>
    /\ hist = << >>
    /\ threads = [t \in Threads |-> Idle]
    /\ writeLock = NoThread
    /\ written = [t \in Threads |-> << >>]
    /\ since = EmptyMap
    /\ q = << >>
    /\ total = 0
    /\ now = 0
    /\ log = [t \in Times |-> 0]
    /\ lastHits = << >>

PairPut(key, value) ==
    /\ policy = "BOTH"
    /\ LET t == LRUCache_put(LRUThis, capacity, key, value)
           d == DocCache_put(DocThis, capacity, key, value)
       IN /\ cache' = t.cache
          /\ list' = t.list
          /\ DocAssign(d)
          /\ lastOp' = Result("put", key, value, << >>, d.exc,
                              (DOMAIN cache) \ (DOMAIN t.cache))
    /\ UNCHANGED <<policy, capacity, lfuVars, concVars, touched, hist, since,
                 hitVars>>

PairGet(key) ==
    /\ policy = "BOTH"
    /\ LET r == LRUCache_get(LRUThis, key)
           d == DocCache_get(DocThis, key)
       IN /\ cache' = r.this.cache
          /\ list' = r.this.list
          /\ DocAssign(d.this)
          /\ lastOp' = Result("get", key, NULL, << r.ret, d.ret >>,
                              d.this.exc, {})
    /\ UNCHANGED <<policy, capacity, lfuVars, concVars, touched, hist, since,
                 hitVars>>

NextPair ==
    \/ \E key \in Keys, value \in Values : PairPut(key, value)
    \/ \E key \in Keys : PairGet(key)

SpecPair == InitPair /\ [][NextPair]_vars

\* ============================================================== HitCounter
\* (unnamed/part_007)
Entry(ts, count) == [ts |-> ts, count |-> count]

\* evictOld: while (!q.isEmpty() && q.peekFirst().ts <= boundary)
\*               total -= q.removeFirst().count;
RECURSIVE evictOld_KeepsBoundary(_, _, _)
evictOld_KeepsBoundary(queue, tot, timestamp) ==
    LET boundary == timestamp - Window
    IN IF queue # << >> /\ Head(queue).ts < boundary
       THEN evictOld_KeepsBoundary(Tail(queue), tot - Head(queue).count,
                                   timestamp)
       ELSE [q |-> queue, total |-> tot]
RECURSIVE evictOld(_, _, _)
evictOld(queue, tot, timestamp) ==
    LET boundary == timestamp - Window
    IN IF queue # << >> /\ Head(queue).ts <= boundary
       THEN evictOld(Tail(queue), tot - Head(queue).count, timestamp)
       ELSE [q |-> queue, total |-> tot]

\* hit: the queue and the total afterwards
HitCounter_hit(queue, tot, timestamp) ==
    LET q1 == IF queue # << >> /\ queue[Len(queue)].ts = timestamp
              THEN [queue EXCEPT ![Len(queue)].count = @ + 1]
              ELSE Append(queue, Entry(timestamp, 1))
    IN evictOld(q1, tot + 1, timestamp)

\* getHits: the queue and the total afterwards; the total is returned
HitCounter_getHits(queue, tot, timestamp) == evictOld(queue, tot, timestamp)

cacheState == <<policy, capacity, cache, list, nodes, keyToNodeMap,
                frequencyToListMap, minFrequency, docCache, dll, lastOp,
                touched, hist, since, concVars>>

\* the hits recorded so far
RECURSIVE SumLog(_, _)
SumLog(l, ts) ==
    IF ts = {} THEN 0
    ELSE LET t == CHOOSE x \in ts : TRUE
         IN l[t] + SumLog(l, ts \ {t})

InitHitCounter ==
    /\ policy = "HIT"
    /\ capacity = 0
    /\ cache = EmptyMap
    /\ list = << >>
    /\ nodes = EmptyMap
    /\ keyToNodeMap = EmptyMap
    /\ frequencyToListMap = EmptyMap
    /\ minFrequency = 0
    /\ docCache = EmptyMap
    /\ dll = << >>
    /\ lastOp = Result("new", 0, 0, << >>, "none", {})
    /\ touched = << >>
    /\ hist = << >>
    /\ threads = [t \in Threads |-> Idle]
    /\ writeLock = NoThread
    /\ written = [t \in Threads |-> << >>]
    /\ since = EmptyMap
    /\ q = << >>
    /\ total = 0
    /\ now = 0
    /\ log = [t \in Times |-> 0]
    /\ lastHits = << >>

\* hit(timestamp), the timestamps of the calls never decreasing
Hit(timestamp) ==
    /\ policy = "HIT"
    /\ timestamp >= now
    /\ SumLog(log, Times) < MaxHits
    /\ LET r == HitCounter_hit(q, total, timestamp)
       IN /\ q' = r.q
          /\ total' = r.total
    /\ now' = timestamp
    /\ log' = [log EXCEPT ![timestamp] = @ + 1]
    /\ lastHits' = << >>
    /\ UNCHANGED cacheState

\* getHits(timestamp)
GetHits(timestamp) ==
    /\ policy = "HIT"
    /\ timestamp >= now
    /\ LET r == HitCounter_getHits(q, total, timestamp)
       IN /\ q' = r.q
          /\ total' = r.total
          /\ lastHits' = << r.total >>
    /\ now' = timestamp
    /\ UNCHANGED <<log, cacheState>>

NextHitCounter ==
    \/ \E timestamp \in Times : Hit(timestamp)
    \/ \E timestamp \in Times : GetHits(timestamp)

SpecHitCounter == InitHitCounter /\ [][NextHitCounter]_vars

\* ================================================================ properties
\* What a caller or an inspection of the object can see, per class.
Stored ==
    CASE policy = "LRU" -> DOMAIN cache
      [] policy = "LFU" -> DOMAIN keyToNodeMap
      [] policy = "DOC" -> DOMAIN docCache

\* the keys of the linked nodes, head first (LFU: every list, by frequency)
RECURSIVE Flatten(_, _)
Flatten(lists, fs) ==
    IF fs = {} THEN << >>
    ELSE LET f == CHOOSE x \in fs : \A y \in fs : x <= y
         IN lists[f] \o Flatten(lists, fs \ {f})

Linked ==
    CASE policy = "LRU" -> list
      [] policy = "LFU" -> Flatten(frequencyToListMap, DOMAIN frequencyToListMap)
      [] policy = "DOC" -> dll

LinkedKeys ==
    CASE policy = "LRU" -> [i \in 1..Len(list) |-> list[i].key]
      [] OTHER -> [i \in 1..Len(Linked) |-> nodes[Linked[i]].key]

NodeOf(k) ==
    CASE policy = "LRU" -> cache[k]
      [] policy = "LFU" -> keyToNodeMap[k]
      [] policy = "DOC" -> docCache[k]

ValueOf(k) ==
    CASE policy = "LRU" -> cache[k].value
      [] OTHER -> nodes[NodeOf(k)].value

\* the value stored for each stored key
StoredValues == [k \in Stored |-> ValueOf(k)]

NoDuplicates(s) == \A i, j \in 1..Len(s) : s[i] = s[j] => i = j

\* C1: after every call on a cache of capacity >= 0 the number of stored
\* keys is at most the capacity.
C1_CapacityInvariant == capacity >= 0 => Cardinality(Stored) <= capacity

C1_Witness ==
    /\ capacity = MaxCap
    /\ Cardinality(Stored) = capacity
    /\ lastOp.op = "put"
    /\ lastOp.evicted # {}

\* C2: the keys of the key -> node map are exactly the keys of the linked
\* nodes, every mapped node is linked exactly once and holds the key it is
\* mapped under, and no other node is linked.
C2_Bijection ==
    /\ NoDuplicates(Linked)
    /\ Elems(Linked) = {NodeOf(k) : k \in Stored}
    /\ Elems(LinkedKeys) = Stored
    /\ NoDuplicates(LinkedKeys)
    /\ \A k \in Stored :
          IF policy = "LRU" THEN cache[k].key = k ELSE nodes[NodeOf(k)].key = k

C2_Witness ==
    /\ policy = "LFU"
    /\ lastOp.evicted # {}
    /\ Cardinality(DOMAIN frequencyToListMap) = 2
    /\ Cardinality(Stored) = 2

\* ----------------------------------------------------------------- steps
\* The step is a call of put on a key that is not stored, made when the
\* cache holds capacity keys.
PutAbsentWhenFull ==
    /\ lastOp'.op = "put"
    /\ lastOp'.key \notin Stored
    /\ Cardinality(Stored) = capacity

\* The step is a call of put on a stored key.
PutPresent == lastOp'.op = "put" /\ lastOp'.key \in Stored

\* The calls so far are exactly the script s, on a fresh cache.
Ran(s) == Len(hist) = Len(s) /\ hist # OffScript /\ Follows(hist, s)

ScriptPutPutGetPut == << <<"put", 1>>, <<"put", 2>>, <<"get", 1>>, <<"put", 3>> >>
ScriptPutPutPut == << <<"put", 1>>, <<"put", 2>>, <<"put", 3>> >>
ScriptPutPutSameGet == << <<"put", 1>>, <<"put", 1>>, <<"get", 1>> >>

FreqOf(k) == nodes[keyToNodeMap[k]].frequency

\* C3: in an LRU cache of capacity >= 1, a put of an absent key into a full
\* cache evicts exactly the stored key whose last touch is the oldest; with
\* capacity 2, put(A); put(B); get(A); put(C) leaves exactly {A, C}.
C3_EvictsOldest ==
    (policy \in {"LRU", "DOC"} /\ capacity >= 1 /\ PutAbsentWhenFull)
        => /\ lastOp'.exc = "none"
           /\ Stored' = (Stored \ {touched[1]}) \cup {lastOp'.key}
           /\ lastOp'.evicted = {touched[1]}

C3_Script ==
    (policy \in {"LRU", "DOC"} /\ capacity = 2 /\ Ran(ScriptPutPutGetPut))
        => /\ Stored = {hist[1].key, hist[4].key}
           /\ lastOp.evicted = {hist[2].key}

\* C3: every step evicts the key of oldest last touch, and the script of
\* capacity 2 ends with {A, C}.
C3_LRUEvictionOrder == [][C3_EvictsOldest]_vars /\ []C3_Script

C3_Witness ==
    /\ policy = "LRU"
    /\ capacity = 2
    /\ Ran(ScriptPutPutGetPut)
    /\ lastOp.evicted = {hist[2].key}

\* C4: in an LFU cache of capacity >= 1, a put of an absent key into a full
\* cache evicts one key, whose frequency counter is the minimum over the
\* keys stored before the put; with capacity 2, put(A); put(B); get(A);
\* put(C) evicts B and leaves exactly {A, C}.
C4_EvictsLeastFrequent ==
    (policy = "LFU" /\ capacity >= 1 /\ PutAbsentWhenFull)
        => /\ lastOp'.exc = "none"
           /\ \E e \in Stored :
                /\ \A k \in Stored : FreqOf(e) <= FreqOf(k)
                /\ Stored' = (Stored \ {e}) \cup {lastOp'.key}
                /\ lastOp'.evicted = {e}

C4_Script ==
    (policy = "LFU" /\ capacity = 2 /\ Ran(ScriptPutPutGetPut))
        => /\ Stored = {hist[1].key, hist[4].key}
           /\ lastOp.evicted = {hist[2].key}

\* C4: every step evicts a key of minimum frequency, and the script of
\* capacity 2 evicts B and ends with {A, C}.
C4_LFUEvictionOrder == [][C4_EvictsLeastFrequent]_vars /\ []C4_Script

C4_Witness ==
    /\ policy = "LFU"
    /\ capacity = 2
    /\ Ran(ScriptPutPutGetPut)
    /\ lastOp.evicted = {hist[2].key}
    /\ FreqOf(hist[1].key) = 2

\* C5: when an LFU eviction happens, the evicted key is, among the stored
\* keys of minimum frequency, the one touched least recently; with
\* capacity 2, put(A); put(B); put(C) evicts A and leaves exactly {B, C}.
LeastFrequent == {k \in Stored : \A j \in Stored : FreqOf(k) <= FreqOf(j)}

C5_EvictsOldestOfLeastFrequent ==
    (policy = "LFU" /\ lastOp'.op = "put" /\ lastOp'.evicted # {})
        => LET ties == SelectSeq(touched, LAMBDA k : k \in LeastFrequent)
           IN lastOp'.evicted = {ties[1]}

C5_Script ==
    (policy = "LFU" /\ capacity = 2 /\ Ran(ScriptPutPutPut))
        => /\ Stored = {hist[2].key, hist[3].key}
           /\ lastOp.evicted = {hist[1].key}

\* C5: every eviction takes the least recently touched key of minimum
\* frequency, and put(A); put(B); put(C) at capacity 2 ends with {B, C}.
C5_LFUTieBreak == [][C5_EvictsOldestOfLeastFrequent]_vars /\ []C5_Script

C5_Witness ==
    /\ policy = "LFU"
    /\ capacity = 2
    /\ Ran(ScriptPutPutPut)
    /\ lastOp.evicted = {hist[1].key}
    /\ \A k \in Stored : FreqOf(k) = 1

\* the result of get on a key that is not stored
MissResult == IF policy = "LFU" THEN MISS ELSE NULL

cacheVars == <<cache, list, nodes, keyToNodeMap, frequencyToListMap,
               minFrequency, docCache, dll>>

\* C6: with capacity >= 1, put(K, V) leaves K stored with value V (the put
\* never evicts the key it wrote); the value stored for K then changes only
\* by a later put on K, for as long as K stays stored; and get(K) on a
\* stored K returns the value stored for it.
C6_PutStores ==
    (capacity >= 1 /\ lastOp'.op = "put")
        => /\ lastOp'.exc = "none"
           /\ lastOp'.key \in Stored'
           /\ StoredValues'[lastOp'.key] = lastOp'.value
           /\ lastOp'.key \notin lastOp'.evicted

C6_ValueKept ==
    \A k \in Stored \cap Stored' :
        StoredValues'[k] # StoredValues[k] => (lastOp'.op = "put" /\ lastOp'.key = k)

C6_GetReturnsStored ==
    (lastOp'.op = "get" /\ lastOp'.key \in Stored)
        => /\ lastOp'.ret = <<ValueOf(lastOp'.key)>>
           /\ lastOp'.exc = "none"
           /\ lastOp'.key \in Stored'

\* C6: get(K) returns the value of the last put(K, V) while K stays stored.
C6_RoundTrip ==
    [][C6_PutStores /\ C6_ValueKept /\ C6_GetReturnsStored]_vars

\* a hit that returns a value written two or more calls earlier
C6_Witness ==
    /\ lastOp.op = "get"
    /\ lastOp.key \in Stored
    /\ lastOp.ret = <<ValueOf(lastOp.key)>>
    /\ Cardinality(Stored) = 2
    /\ \E k \in Stored : ValueOf(k) # ValueOf(lastOp.key)
    /\ hist = OffScript

\* C7: a put on a stored key leaves the set of stored keys as it is, also
\* when the cache is full, and makes the stored value the one put; after
\* put(A, V1); put(A, V2) on a fresh cache of capacity >= 1, get(A) returns
\* V2 and one key is stored.
C7_UpdateKeepsKeys ==
    PutPresent
        => /\ Stored' = Stored
           /\ lastOp'.evicted = {}
           /\ lastOp'.exc = "none"
           /\ StoredValues'[lastOp'.key] = lastOp'.value

C7_Script ==
    (capacity >= 1 /\ Ran(ScriptPutPutSameGet))
        => /\ Cardinality(Stored) = 1
           /\ lastOp.ret = <<hist[2].value>>

\* C7: a put on a stored key keeps the key set and stores the new value.
C7_UpdateDoesNotGrow == [][C7_UpdateKeepsKeys]_vars /\ []C7_Script

C7_Witness ==
    /\ lastOp.op = "put"
    /\ Cardinality(Stored) = capacity
    /\ capacity = 2
    /\ lastOp.evicted = {}
    /\ policy = "LFU"
    /\ FreqOf(lastOp.key) >= 2

\* C8: with capacity 0 every put completes without an exception and leaves
\* the cache empty, and every get misses.
C8_ZeroCapacity ==
    capacity = 0
        => /\ Stored = {}
           /\ Linked = << >>
           /\ lastOp.op = "put" => lastOp.exc = "none"
           /\ lastOp.op = "get" => lastOp.ret = <<MissResult>>

\* the same of the two classes of the Java sources alone
C8_ZeroCapacityOfJavaClasses == policy \in {"LRU", "LFU"} => C8_ZeroCapacity

\* C9: a get on a key that is not stored returns the miss result, throws
\* nothing and leaves the map, the lists, the nodes and minFrequency as
\* they are.
C9_MissChangesNothing ==
    (lastOp'.op = "get" /\ lastOp'.key \notin Stored)
        => /\ lastOp'.ret = <<MissResult>>
           /\ lastOp'.exc = "none"
           /\ UNCHANGED cacheVars
           /\ touched' = touched

\* C9: every get of an absent key misses and changes nothing.
C9_MissIsSideEffectFree == [][C9_MissChangesNothing]_vars

C9_Witness ==
    /\ lastOp.op = "get"
    /\ lastOp.key \notin Stored
    /\ lastOp.ret = <<MissResult>>
    /\ Cardinality(Stored) = 2
    /\ policy = "LFU"
    /\ minFrequency = 2

\* the frequency counter of each stored key
Frequencies == [k \in Stored |-> FreqOf(k)]

\* C10: a put on a stored key K records an access as a hit of get(K) does:
\* in an LRU cache K's node becomes the head of the list and the other
\* nodes keep their order; in the LFU cache K's counter grows by exactly 1,
\* its node is the head of the list of the new frequency, and the lists and
\* minFrequency are those get(K) would have left.
C10_UpdateTouches ==
    PutPresent =>
        LET k == lastOp'.key
        IN /\ policy \in {"LRU", "DOC"} =>
                /\ LinkedKeys'[1] = k
                /\ LinkedKeys' = <<k>> \o SeqRemove(LinkedKeys, k)
           /\ policy = "LRU" =>
                LinkedKeys' = [i \in 1..Len(list) |->
                                  LRUCache_get(LRUThis, k).this.list[i].key]
           /\ policy = "DOC" => dll' = DocCache_get(DocThis, k).this.dll
           /\ policy = "LFU" =>
                /\ Frequencies'[k] = Frequencies[k] + 1
                /\ \A j \in Stored \ {k} : Frequencies'[j] = Frequencies[j]
                /\ frequencyToListMap'[Frequencies[k] + 1][1] = keyToNodeMap'[k]
                /\ frequencyToListMap' =
                       LFUCache_get(LFUThis, k).this.frequencyToListMap
                /\ minFrequency' = LFUCache_get(LFUThis, k).this.minFrequency

\* C10: every put on a stored key records an access as get does.
C10_UpdateCountsAsAccess == [][C10_UpdateTouches]_vars

C10_Witness ==
    /\ policy = "LFU"
    /\ lastOp.op = "put"
    /\ Cardinality(Stored) = 2
    /\ FreqOf(lastOp.key) = MaxFreq
    /\ minFrequency = 1
    /\ frequencyToListMap[MaxFreq][1] = keyToNodeMap[lastOp.key]

\* C11: a remove of a key that is not stored throws nothing and leaves the
\* map, the list, the nodes (so every stored value and the size) and the
\* order in which the keys will be evicted as they are.
C11_AbsentRemoveChangesNothing ==
    (lastOp'.op = "remove" /\ lastOp'.key \notin Stored)
        => /\ lastOp'.exc = "none"
           /\ UNCHANGED cacheVars
           /\ Stored' = Stored
           /\ StoredValues' = StoredValues
           /\ LinkedKeys' = LinkedKeys
           /\ touched' = touched

\* C11: every remove of an absent key is a no-op that raises no error.
C11_IdempotentRemove == [][C11_AbsentRemoveChangesNothing]_vars

\* a remove that left a full cache full removed nothing
C11_Witness ==
    /\ policy = "DOC"
    /\ lastOp.op = "remove"
    /\ lastOp.exc = "none"
    /\ capacity = MaxCap
    /\ Cardinality(Stored) = capacity

ScriptPutPutRemove == << <<"put", 1>>, <<"put", 2>>, <<"remove", 1>> >>

\* C12: a remove of a stored key K takes K out of the map and its node
\* out of the list in the one call: K is no longer stored, a get of K
\* misses, the size is one less, and the other keys keep their values and
\* their order in the list.
C12_RemoveDeletes ==
    \A k \in Keys :
        (lastOp'.op = "remove" /\ lastOp'.key = k /\ k \in Stored)
            => /\ lastOp'.exc = "none"
               /\ Stored' = Stored \ {k}
               /\ Cardinality(Stored') = Cardinality(Stored) - 1
               /\ LinkedKeys' = SeqRemove(LinkedKeys, k)
               /\ Elems(LinkedKeys') = Stored'
               /\ \A j \in Stored \ {k} : StoredValues'[j] = StoredValues[j]
               /\ touched' = SeqRemove(touched, k)
               /\ (DocCache_get(DocThis, k).ret = NULL)'
               /\ (DocCache_get(DocThis, k).this = DocThis)'

\* C12: every remove of a stored key deletes it from the map and the list.
C12_RemoveUnlinks == [][C12_RemoveDeletes]_vars

C12_Witness ==
    /\ policy = "DOC"
    /\ Ran(ScriptPutPutRemove)
    /\ capacity = MaxCap
    /\ Stored = {hist[2].key}
    /\ LinkedKeys = << hist[2].key >>
    /\ lastOp.exc = "none"

\* C13: a construction with a negative capacity ends in a
\* ConfigurationError and leaves no cache to call, and a construction with
\* capacity 0 ends without an error.
C13_InvalidConstruction ==
    /\ capacity < 0 => (lastOp.op = "new" /\ lastOp.exc = "ConfigurationError")
    /\ (capacity = 0 /\ lastOp.op = "new") => lastOp.exc = "none"

\* the least element of a non-empty set of numbers
MinOf(S) == CHOOSE x \in S : \A y \in S : x <= y

\* C17: after every call that leaves the LFU cache non-empty, minFrequency
\* is the least frequency whose list is not empty, which is the least
\* frequency counter among the stored keys.
C17_MinFrequency ==
    (policy = "LFU" /\ Stored # {})
        => /\ minFrequency =
                 MinOf({f \in DOMAIN frequencyToListMap :
                           frequencyToListMap[f] # << >>})
           /\ minFrequency = MinOf({FreqOf(k) : k \in Stored})

C17_Witness ==
    /\ policy = "LFU"
    /\ Cardinality(Stored) = 2
    /\ lastOp.op = "get"
    /\ lastOp.ret # <<MISS>>
    /\ minFrequency = MaxFreq

Reverse(s) == [i \in 1..Len(s) |-> s[Len(s) + 1 - i]]

\* C18: after every call on an LRU cache the list, read from the head to
\* the tail, holds the stored keys from the one touched last to the one
\* touched longest ago, each once, and it is as long as the map is large.
C18_RecencyOrder ==
    policy \in {"LRU", "DOC"}
        => /\ LinkedKeys = Reverse(touched)
           /\ NoDuplicates(LinkedKeys)
           /\ Len(Linked) = Cardinality(Stored)

C18_Witness ==
    /\ policy = "LRU"
    /\ capacity = 2
    /\ Len(hist) = 3
    /\ hist # OffScript
    /\ Follows(hist, ScriptPutPutGetPut)
    /\ LinkedKeys = << hist[1].key, hist[2].key >>

\* C19: after every call on the LFU cache each stored key's node is linked
\* in the list kept under the node's own frequency and in no other, no
\* frequency is kept with an empty list, and each list, read from the head
\* to the tail, holds its keys from the one touched last to the one touched
\* longest ago.
C19_BucketStructure ==
    policy = "LFU"
        => /\ \A k \in Stored :
                 /\ FreqOf(k) \in DOMAIN frequencyToListMap
                 /\ \A f \in DOMAIN frequencyToListMap :
                       keyToNodeMap[k] \in Elems(frequencyToListMap[f])
                           <=> f = FreqOf(k)
           /\ \A f \in DOMAIN frequencyToListMap :
                 LET l == frequencyToListMap[f]
                 IN /\ l # << >>
                    /\ NoDuplicates(l)
                    /\ \A i \in 1..Len(l) : nodes[l[i]].key \in Stored
                    /\ [i \in 1..Len(l) |-> nodes[l[i]].key] =
                          Reverse(SelectSeq(touched,
                                            LAMBDA k : FreqOf(k) = f))

C19_Witness ==
    /\ policy = "LFU"
    /\ Cardinality(Stored) = 2
    /\ DOMAIN frequencyToListMap = {2}
    /\ Len(frequencyToListMap[2]) = 2
    /\ lastOp.op = "get"

ScriptPutGetPutPut == << <<"put", 1>>, <<"get", 1>>, <<"put", 2>>, <<"put", 1>> >>

\* C20: in the LFU cache a put that inserts a key leaves its counter at 1,
\* also when the key had been stored and evicted before; a get or a put on
\* a stored key raises its counter by exactly 1; and a call leaves the
\* counter of every other key that stays stored as it was, so that no
\* counter of a key that stays stored ever decreases.
C20_CounterStep ==
    policy = "LFU" =>
        LET k == lastOp'.key
        IN /\ (lastOp'.op = "put" /\ k \notin Stored /\ k \in Stored')
                 => Frequencies'[k] = 1
           /\ (lastOp'.op \in {"put", "get"} /\ k \in Stored)
                 => /\ k \in Stored'
                    /\ Frequencies'[k] = Frequencies[k] + 1
           /\ \A j \in (Stored \cap Stored') :
                 /\ j # k => Frequencies'[j] = Frequencies[j]
                 /\ Frequencies'[j] >= Frequencies[j]

\* C20: every call on the LFU cache changes the counters by this rule.
C20_FrequencyCounter == [][C20_CounterStep]_vars

C20_Witness ==
    /\ policy = "LFU"
    /\ capacity = 1
    /\ Ran(ScriptPutGetPutPut)
    /\ Stored = {hist[1].key}
    /\ FreqOf(hist[1].key) = 1
    /\ lastOp.evicted = {hist[3].key}

AllIdle == \A t \in Threads : threads[t].pc = "idle"

InSection(t) == threads[t].pc \notin {"idle", "lock"}

\* C15: at most one thread at a time is between lock and unlock, it is the
\* thread that holds writeLock, and whenever the lock is free, so that
\* another thread can enter, the keys of the map are exactly the keys of
\* the linked nodes, each linked once and mapped to its own node.
C15_AtomicSection ==
    /\ \A t, u \in Threads : (InSection(t) /\ InSection(u)) => t = u
    /\ \A t \in Threads : InSection(t) <=> writeLock = t
    /\ (policy = "DOC" /\ writeLock = NoThread)
          => /\ Elems(LinkedKeys) = DOMAIN docCache
             /\ NoDuplicates(dll)
             /\ \A k \in DOMAIN docCache :
                   /\ docCache[k] \in Elems(dll)
                   /\ nodes[docCache[k]].key = k

\* a thread waits for the lock while the holder has linked a node that is
\* not yet in the map
C15_Witness ==
    \E t, u \in Threads :
        /\ threads[t].pc = "cachePut"
        /\ threads[u].pc = "lock"
        /\ writeLock = t
        /\ Elems(LinkedKeys) # DOMAIN docCache

C21_InsertStep ==
    (policy = "LFU" /\ capacity >= 1
        /\ lastOp'.op = "put" /\ lastOp'.key \notin Stored)
        => /\ lastOp'.exc = "none"
           /\ lastOp'.key \in Stored'
           /\ minFrequency' = 1
           /\ Frequencies'[lastOp'.key] = 1
           /\ 1 \in DOMAIN frequencyToListMap'
           /\ frequencyToListMap'[1][1] = keyToNodeMap'[lastOp'.key]

\* C21: every inserting put of the LFU cache is such a step.
C21_InsertNew == [][C21_InsertStep]_vars

C21_Witness ==
    /\ policy = "LFU"
    /\ lastOp.op = "put"
    /\ lastOp.evicted # {}
    /\ minFrequency = 1
    /\ frequencyToListMap[1] = << keyToNodeMap[lastOp.key] >>
    /\ \E j \in Stored : FreqOf(j) = MaxFreq

\* the list kept under frequency f, empty when the map has no such key
Bucket(lists, f) == IF f \in DOMAIN lists THEN lists[f] ELSE << >>

\* C22: a hit of get or an update put in the LFU cache on a key of
\* frequency f links its node at the head of the list of f+1, which is
\* created when missing; the list of f is deleted exactly when the node was
\* its only one; and minFrequency becomes f+1 exactly when that list was
\* deleted and f was minFrequency, and stays as it was otherwise.
C22_PromoteStep ==
    \A k \in Keys :
        (policy = "LFU" /\ lastOp'.op \in {"get", "put"}
            /\ lastOp'.key = k /\ k \in Stored)
            => LET f == Frequencies[k]
                   emptied == frequencyToListMap[f] = << keyToNodeMap[k] >>
               IN /\ lastOp'.exc = "none"
                  /\ f + 1 \in DOMAIN frequencyToListMap'
                  /\ frequencyToListMap'[f + 1] =
                        << keyToNodeMap[k] >> \o Bucket(frequencyToListMap, f + 1)
                  /\ (f \notin DOMAIN frequencyToListMap') <=> emptied
                  /\ ~emptied =>
                        frequencyToListMap'[f] =
                            SeqRemove(frequencyToListMap[f], keyToNodeMap[k])
                  /\ minFrequency' = IF emptied /\ f = minFrequency
                                     THEN f + 1 ELSE minFrequency
                  /\ (minFrequency' # minFrequency)
                        <=> (emptied /\ f = minFrequency)

PutEvicts ==
    /\ lastOp'.op = "put"
    /\ CASE policy = "LRU" ->
              Cardinality(Stored \cup {lastOp'.key}) > capacity
         [] policy = "LFU" ->
              /\ capacity # 0
              /\ lastOp'.key \notin Stored
              /\ Cardinality(Stored) = capacity
         [] policy = "DOC" ->
              /\ lastOp'.key \notin Stored
              /\ Cardinality(Stored) >= capacity

\* C23: whenever a put enters its eviction branch, for every capacity from
\* 0 up, the list it evicts from holds a real node (in LFUCache the list of
\* minFrequency exists and is not empty): the put removes exactly one real
\* key and ends without an exception.
C23_EvictionStep ==
    PutEvicts
        => /\ lastOp'.exc = "none"
           /\ policy = "LFU" =>
                 /\ minFrequency \in DOMAIN frequencyToListMap
                 /\ frequencyToListMap[minFrequency] # << >>
           /\ policy = "DOC" => dll # << >>
           /\ Cardinality((Stored \cup {lastOp'.key}) \ Stored') = 1

\* C23: no put ever evicts from an empty structure.
C23_EvictionFindsEntry == [][C23_EvictionStep]_vars

\* the same of the two classes of the Java sources alone
C23_EvictionOfJavaClassesFindsEntry ==
    [][(policy \in {"LRU", "LFU"}) => C23_EvictionStep]_vars

\* C24: when put calls removeLast on an empty list, the call fails with an
\* EmptyError.
C24_EmptyEvictStep ==
    (policy = "DOC" /\ PutEvicts /\ dll = << >>)
        => lastOp'.exc = "EmptyError"

\* C24: every removeLast on an empty list fails with EmptyError.
C24_EvictOnEmptyFails == [][C24_EmptyEvictStep]_vars

\* C25: a stored key leaves the cache only by a remove of it or by a put
\* of another, absent key at size = capacity; a put that removes a key
\* removes exactly one, and with capacity >= 1 every put of an absent key
\* at size = capacity does; a put of an absent key below the capacity adds
\* it and removes none; get and a put on a stored key remove none.
C25_KeySetStep ==
    LET k == lastOp'.key
        op == lastOp'.op
        removed == Stored \ Stored'
        added == Stored' \ Stored
        atCapacity == op = "put" /\ k \notin Stored
                          /\ Cardinality(Stored) = capacity
    IN /\ \A j \in removed :
             \/ op = "remove" /\ j = k
             \/ atCapacity /\ j # k
       /\ (op = "put" /\ removed # {}) => Cardinality(removed) = 1
       /\ (atCapacity /\ capacity >= 1)
             => (Cardinality(removed) = 1 /\ added = {k})
       /\ (op = "put" /\ k \notin Stored /\ Cardinality(Stored) < capacity)
             => (added = {k} /\ removed = {})
       /\ (op = "get" \/ (op = "put" /\ k \in Stored))
             => (removed = {} /\ added = {})

\* C25: every call changes the set of stored keys by this rule.
C25_KeySetChange == [][C25_KeySetStep]_vars

C25_Witness ==
    /\ policy = "DOC"
    /\ capacity = 1
    /\ lastOp.op = "put"
    /\ lastOp.exc = "none"
    /\ Cardinality(lastOp.evicted) = 1
    /\ Stored = {lastOp.key}
    /\ Len(hist) = 2

\* C26: a get of a stored key K returns its value and leaves the set of
\* stored keys, every stored value, the frequency of every other key and
\* the order of the other keys among themselves (in the LRU list, in every
\* list of the LFU cache, and by last touch) as they were.
C26_HitStep ==
    \A k \in Keys :
        (lastOp'.op = "get" /\ lastOp'.key = k /\ k \in Stored)
            => /\ lastOp'.exc = "none"
               /\ lastOp'.ret = << StoredValues[k] >>
               /\ Stored' = Stored
               /\ StoredValues' = StoredValues
               /\ SeqRemove(touched', k) = SeqRemove(touched, k)
               /\ policy \in {"LRU", "DOC"} =>
                     SeqRemove(LinkedKeys', k) = SeqRemove(LinkedKeys, k)
               /\ policy = "LFU" =>
                     /\ \A j \in Stored \ {k} :
                           Frequencies'[j] = Frequencies[j]
                     /\ \A f \in 1..(MaxFreq + 1) :
                           SeqRemove(Bucket(frequencyToListMap', f),
                                     keyToNodeMap[k])
                             = SeqRemove(Bucket(frequencyToListMap, f),
                                         keyToNodeMap[k])

\* C26: every hit of get is such a step.
C26_HitFrame == [][C26_HitStep]_vars

C26_Witness ==
    /\ policy = "LFU"
    /\ lastOp.op = "get"
    /\ lastOp.key \in Stored
    /\ DOMAIN frequencyToListMap = {MaxFreq}
    /\ Len(frequencyToListMap[MaxFreq]) = 2
    /\ frequencyToListMap[MaxFreq][1] = keyToNodeMap[lastOp.key]

\* C27 as stated: in an LRU cache of capacity >= 1 a key leaves the cache,
\* unless it is removed, only after at least `capacity` distinct absent
\* keys were inserted since its last touch (so it survives every sequence
\* of calls that inserts at most capacity - 1 of them).
C27_EvictedAfterInserts ==
    (policy \in {"LRU", "DOC"} /\ capacity >= 1)
        => \A j \in Stored \ Stored' :
              \/ lastOp'.op = "remove" /\ lastOp'.key = j
              \/ /\ lastOp'.op = "put"
                 /\ Cardinality(since[j].ins \cup {lastOp'.key}) >= capacity

\* C27 as stated, of every step.
C27_SurvivesInserts == [][C27_EvictedAfterInserts]_vars

\* C27, amended: in an LRU cache of capacity >= 1 a key leaves the cache,
\* unless it is removed, only after at least `capacity` distinct other
\* keys were touched (hit by get, or put) since its last touch: it
\* survives every sequence of calls that touches at most capacity - 1
\* other keys and does not remove it.
C27_EvictedAfterTouches ==
    (policy \in {"LRU", "DOC"} /\ capacity >= 1)
        => \A j \in Stored \ Stored' :
              \/ lastOp'.op = "remove" /\ lastOp'.key = j
              \/ /\ lastOp'.op = "put"
                 /\ lastOp'.key \notin Stored
                 /\ Cardinality(since[j].tch \cup {lastOp'.key}) >= capacity

\* C27, amended, of every step.
C27_SurvivesTouches == [][C27_EvictedAfterTouches]_vars

\* a stored key with capacity - 1 other keys touched since its last touch,
\* none of them inserted: it is the next to be evicted
C27_Witness ==
    /\ policy = "LRU"
    /\ capacity = MaxCap
    /\ lastOp.op = "get"
    /\ \E k \in Stored :
          /\ Cardinality(since[k].tch) = capacity - 1
          /\ since[k].ins = {}
    /\ Len(hist) = 3

\* C28: with capacity >= 1, after every call of the same sequence of get
\* and put calls on the two LRU classes, the two hold the same keys with
\* the same values, their lists hold the same keys and values in the same
\* order from the head, no call has thrown, and a get returned the same
\* result from both.
C28_SameCaches ==
    (policy = "BOTH" /\ capacity >= 1)
        => /\ lastOp.exc = "none"
           /\ DOMAIN cache = DOMAIN docCache
           /\ \A k \in DOMAIN cache :
                 /\ nodes[docCache[k]].key = k
                 /\ cache[k].value = nodes[docCache[k]].value
           /\ Len(list) = Len(dll)
           /\ \A i \in 1..Len(list) :
                 /\ list[i].key = nodes[dll[i]].key
                 /\ list[i].value = nodes[dll[i]].value
           /\ lastOp.op = "get" => lastOp.ret[1] = lastOp.ret[2]

\* after an eviction and a hit the two lists are the same two nodes
C28_Witness ==
    /\ policy = "BOTH"
    /\ capacity = MaxCap
    /\ Len(dll) = capacity
    /\ lastOp.op = "get"
    /\ lastOp.ret = << MISS, MISS >>
    /\ list[1].key = lastOp.key
    /\ list[2].value = NULL
    /\ \E k \in Keys : k \notin DOMAIN cache

\* C29: a get returns the miss result (null from the LRU classes, -1 from
\* LFUCache) only for a key that is not stored, whatever values put was
\* given.
C29_MissOnlyWhenAbsent ==
    (lastOp.op = "get" /\ lastOp.exc = "none" /\ lastOp.ret = <<MissResult>>)
        => lastOp.key \notin Stored

\* the recorded hits whose timestamp lies in (t - Window, t]
InWindow(t) == SumLog(log, {ts \in Times : t - Window < ts /\ ts <= t})

RECURSIVE SumCounts(_)
SumCounts(queue) ==
    IF queue = << >> THEN 0
    ELSE Head(queue).count + SumCounts(Tail(queue))

\* C30: when the timestamps of the calls never decrease, getHits(t)
\* returns the number of hits recorded with a timestamp in (t - 300, t],
\* and after every call total is the sum of the counts of the queued
\* entries (which are the hits of the window of the call's timestamp).
C30_HitWindow ==
    policy = "HIT"
        => /\ lastHits # << >> => lastHits[1] = InWindow(now)
           /\ total = SumCounts(q)
           /\ total = InWindow(now)
           /\ \A i \in 1..Len(q) :
                 /\ q[i].count = log[q[i].ts]
                 /\ now - Window < q[i].ts
                 /\ \A j \in 1..Len(q) : i < j => q[i].ts < q[j].ts

\* getHits at a timestamp exactly one window after a recorded hit, with a
\* later hit counted
C30_Witness ==
    /\ policy = "HIT"
    /\ lastHits # << >>
    /\ lastHits[1] >= 1
    /\ now >= Window
    /\ log[now - Window] >= 1
    /\ lastHits[1] < SumLog(log, Times)

====
